---- MODULE Spec2Model ----
(***************************************************************************)
(* A model of the esb "fireplace" protocol runner                          *)
(* (src/src/esb/protocol/fireplacev1_0.py) and of the test orchestrator    *)
(* (src/src/esb/commands/test.py).                                         *)
(*                                                                         *)
(* Text is modelled as a sequence of one-character strings, so that        *)
(* str.strip, str.split and int() are computed character by character.     *)
(* Optional values (Python's None) are tuples: <<>> is None, <<x>> is x.   *)
(***************************************************************************)
EXTENDS Integers, Sequences, FiniteSets, TLC

(***************************************************************************)
(* Bounds of the model.                                                    *)
(***************************************************************************)
\* capacity of a kernel pipe, in bytes
PipeCap == 1
\* the largest length of the input file, in bytes (above PipeCap)
MaxInput == 2
\* the largest number of stdout lines a child writes after its second line
MaxExtra == 2
\* the largest number of test cases declared for one (year, day, part)
MaxTests == 2

None == <<>>
Some(x) == <<x>>

(***************************************************************************)
(* Characters.  BadByte is a byte that is not valid UTF-8 (0xFF); every    *)
(* other symbol is a code point and its own UTF-8 encoding.                *)
(***************************************************************************)
BadByte == "\\xFF"
NL == "\n"
CR == "\r"

\* str.isspace for the characters of the model (str.strip / str.split)
IsSpace(c) == c \in {" ", "\t", "\n", "\r", "\f"}

Digits == {"0", "1", "2", "3", "4", "5", "6", "7", "8", "9"}

DigitVal(c) ==
    CASE c = "0" -> 0 [] c = "1" -> 1 [] c = "2" -> 2 [] c = "3" -> 3
      [] c = "4" -> 4 [] c = "5" -> 5 [] c = "6" -> 6 [] c = "7" -> 7
      [] c = "8" -> 8 [] c = "9" -> 9

(***************************************************************************)
(* Python string operations used by exec_protocol.                         *)
(***************************************************************************)
\* the k-th smallest element of a set of numbers
Nth(S, k) == CHOOSE i \in S : Cardinality({j \in S : j < i}) = k - 1

\* str.strip(): from the first to the last character that is no whitespace
Strip(s) ==
    LET keep == {i \in 1..Len(s) : ~IsSpace(s[i])} IN
    IF keep = {} THEN <<>>
    ELSE SubSeq(s, Nth(keep, 1), Nth(keep, Cardinality(keep)))

\* str.split(sep) for a one-character separator: the pieces between the
\* separators, always one more piece than there are separators
SplitOn(s, sep) ==
    LET at == {i \in 1..Len(s) : s[i] = sep}
        n == Cardinality(at)
    IN  [k \in 1..(n + 1) |->
            SubSeq(s, IF k = 1 THEN 1 ELSE Nth(at, k - 1) + 1,
                      IF k = n + 1 THEN Len(s) ELSE Nth(at, k) - 1)]

\* str.split(): the maximal runs of characters that are no whitespace
SplitWs(s) ==
    LET starts == {i \in 1..Len(s) :
                      ~IsSpace(s[i]) /\ (i = 1 \/ IsSpace(s[i - 1]))}
        ends == {i \in 1..Len(s) :
                    ~IsSpace(s[i]) /\ (i = Len(s) \/ IsSpace(s[i + 1]))}
    IN  [k \in 1..Cardinality(starts) |-> SubSeq(s, Nth(starts, k), Nth(ends, k))]

\* the digits of int(): decimal digits, single underscores between digits
IsDigitRun(s) ==
    /\ s # <<>>
    /\ \A i \in 1..Len(s) : s[i] \in Digits \cup {"_"}
    /\ s[1] # "_"
    /\ s[Len(s)] # "_"
    /\ \A i \in 1..(Len(s) - 1) : ~(s[i] = "_" /\ s[i + 1] = "_")

\* the value of the digits of s from position i on, acc being the value of
\* the digits before it
RECURSIVE DigitRunVal(_, _, _)
DigitRunVal(s, i, acc) ==
    IF i > Len(s) THEN acc
    ELSE IF s[i] = "_" THEN DigitRunVal(s, i + 1, acc)
         ELSE DigitRunVal(s, i + 1, 10 * acc + DigitVal(s[i]))

\* int(token): Some(value), or None where Python raises ValueError
ParseInt(tok) ==
    IF tok # <<>> /\ Head(tok) \in {"+", "-"}
    THEN IF IsDigitRun(Tail(tok))
         THEN Some((IF Head(tok) = "-" THEN -1 ELSE 1) * DigitRunVal(tok, 2, 0))
         ELSE None
    ELSE IF IsDigitRun(tok) THEN Some(DigitRunVal(tok, 1, 0)) ELSE None

(***************************************************************************)
(* MetricPrefix.parse(unit_str, "second", "s").  The class is imported     *)
(* from esb.protocol.metric_prefix, which is not part of the sources: the  *)
(* whitelist is the one the specification gives (ns, us, micro-sign s, ms, *)
(* and the base unit's suffix and name).  Micro stands for the micro sign. *)
(***************************************************************************)
Micro == "\\u00B5"

MetricPrefixParse(tok, base_name, base_suffix) ==
    CASE tok = <<"n", "s">> -> Some("nano")
      [] tok \in {<<"u", "s">>, <<Micro, "s">>} -> Some("micro")
      [] tok = <<"m", "s">> -> Some("milli")
      [] tok \in {base_name, base_suffix} -> Some("unit")
      [] OTHER -> None

\* _parse_running_time: Some(<<running_time, unit>>), None for ValueError
_parse_running_time(running_time_line) ==
    LET toks == SplitWs(running_time_line) IN
    IF Len(toks) = 3 /\ toks[1] = <<"R", "T">>
    THEN LET rt == ParseInt(toks[2])
             unit == MetricPrefixParse(toks[3],
                                       <<"s", "e", "c", "o", "n", "d">>, <<"s">>)
         IN  IF rt = None \/ unit = None THEN None ELSE Some(<<rt[1], unit[1]>>)
    ELSE None

(***************************************************************************)
(* FPResult and the classification of exec_protocol after the child ran.   *)
(***************************************************************************)
FPResult(status, answer, running_time, unit) ==
    [status |-> status, answer |-> answer,
     running_time |-> running_time, unit |-> unit]

success_exit == 0
stdout_lines == {1, 2}

\* a variant of ClassifyLines: the unit of a timed answer is left unset
ClassifyLines_UnitDropped(parts) ==
    IF Len(parts) = 2
    THEN LET rt == _parse_running_time(parts[2]) IN
         IF rt = None
         THEN FPResult("ProtocolError", None, None, None)
         ELSE FPResult("Ok", Some(parts[1]), Some(rt[1][1]), None)
    ELSE IF Len(parts) = 1
         THEN FPResult("Ok", Some(parts[1]), None, None)
         ELSE FPResult("ProtocolError", None, None, None)

\* lines 150-162 of exec_protocol: the match on the lines of the output
ClassifyLines(parts) ==
    IF Len(parts) = 2
    THEN LET rt == _parse_running_time(parts[2]) IN
         IF rt = None
         THEN FPResult("ProtocolError", None, None, None)
         ELSE FPResult("Ok", Some(parts[1]), Some(rt[1][1]), Some(rt[1][2]))
    ELSE IF Len(parts) = 1
         THEN FPResult("Ok", Some(parts[1]), None, None)
         ELSE FPResult("ProtocolError", None, None, None)

\* lines 142-162 of exec_protocol; stdout.strip() and its split("\n") are
\* bound as values, so that each is computed once
Classify(exitcode, stdout, out_lines) ==
    IF exitcode # success_exit \/ out_lines \notin stdout_lines
    THEN FPResult("ProtocolError", None, None, None)
    ELSE CHOOSE r \in {ClassifyLines(parts) :
                         parts \in {SplitOn(text, NL) :
                                      text \in {Strip(stdout)}}} : TRUE

(***************************************************************************)
(* Conversions of _exec_protocol_command and _read_output.                 *)
(***************************************************************************)
IsUtf8(bytes) == \A i \in 1..Len(bytes) : bytes[i] # BadByte

\* universal-newline translation of a text-mode read: \r\n and \r become
\* \n, so a \n that follows a \r is dropped and every other \r becomes \n
TranslateNewlines(s) ==
    LET keep == {i \in 1..Len(s) : ~(s[i] = NL /\ i > 1 /\ s[i - 1] = CR)} IN
    [k \in 1..Cardinality(keep) |->
        IF s[Nth(keep, k)] = CR THEN NL ELSE s[Nth(keep, k)]]

\* day_input.read_text().encode(): None where read_text raises
\* UnicodeDecodeError, else the bytes handed to proc.stdin.write
ReadTextEncode(bytes) ==
    IF IsUtf8(bytes) THEN Some(TranslateNewlines(bytes)) ELSE None

\* line.decode("utf-8"): None where it raises UnicodeDecodeError
Decode(line) == IF IsUtf8(line) THEN Some(line) ELSE None

\* f"{part}"
FormatPart(p) == CASE p = 1 -> "1" [] p = 2 -> "2"

\* a variant of BuildCmd: the part arguments before the command's own
BuildCmd_PartFirst(cmd, p) == <<"--part", FormatPart(p)>> \o cmd

\* cmd = [*command, "--part", f"{part}"]
BuildCmd(cmd, p) == cmd \o <<"--part", FormatPart(p)>>

threshold == 2

\* a variant of EchoOf: the buffered lines are not written when the
\* threshold is reached, only the line just read
EchoOf_LineOnly(new_ret, line, n, thr) ==
    IF n >= thr THEN line ELSE <<>>

\* what one iteration of _read_output writes to print_stream
EchoOf(new_ret, line, n, thr) ==
    IF n = thr THEN new_ret ELSE IF n > thr THEN line ELSE <<>>

\* StreamReader.readline on a buffer: the bytes up to and including the
\* first newline, or the whole buffer when it holds none (at end of file)
FirstLineLen(buf) ==
    IF \E i \in 1..Len(buf) : buf[i] = NL
    THEN CHOOSE k \in 1..Len(buf) : buf[k] = NL /\ \A j \in 1..(k - 1) : buf[j] # NL
    ELSE Len(buf)

HasLine(buf, eof) == (\E i \in 1..Len(buf) : buf[i] = NL) \/ (eof /\ buf # <<>>)

(***************************************************************************)
(* State of one exec_protocol call and of the child it launches.           *)
(***************************************************************************)
VARIABLES
    command,      \* the argument vector handed to exec_protocol
    part,         \* the part, 1 or 2
    input_kind,   \* what day_input names: "file", "dir" or "missing"
    file_bytes,   \* the bytes of the input file
    child_kind,   \* the child's program: "read_first", "write_first", "ignores"
    child_exit,   \* the exit code the child ends with
    child_stdout, \* all the bytes the child writes to its stdout
    pc,           \* "call", "launched", "written", "gather", "returned", "raised"
    child_state,  \* "none", "running", "exited"
    child_argv,   \* the argument vector the child was started with
    stdin_writes, \* the data of every proc.stdin.write call, in order
    in_buf,       \* the write transport's buffer
    in_pipe,      \* the bytes in the child's stdin pipe
    in_state,     \* "none", "open", "closing", "closed", "broken"
    child_read,   \* the bytes the child has read from its stdin
    child_eof,    \* the child has seen end of input
    out_todo,     \* the bytes the child has still to write
    out_pipe,     \* the bytes in the child's stdout pipe
    sr_buf,       \* the StreamReader's buffer
    sr_eof,       \* the StreamReader has been fed end of file
    ret,          \* _read_output's ret
    lines,        \* _read_output's lines
    echoed,       \* what was written to print_stream
    wait_res,     \* the result of proc.wait(), None while it is pending
    read_res,     \* the result of _read_output, None while it is running
    result,       \* the FPResult returned, None before the return
    exc           \* the exception raised out of exec_protocol, None if none

inputVars == <<command, part, input_kind, file_bytes, child_kind, child_exit,
               child_stdout>>
stdinVars == <<stdin_writes, in_buf, in_pipe, in_state>>
childVars == <<child_state, child_argv, child_read, child_eof, out_todo, out_pipe>>
readerVars == <<sr_buf, sr_eof, ret, lines, echoed, read_res>>
runnerVars == <<inputVars, pc, stdinVars, childVars, readerVars, wait_res,
                result, exc>>

(***************************************************************************)
(* State of the test command.                                              *)
(***************************************************************************)
VARIABLES
    has_solution,  \* day -> whether find_solution finds a solution file
    ntests,        \* <<day, part>> -> the number of test cases declared
    build_command, \* lang.build_command: None or Some(command)
    opc,           \* "loop", "build", "tests", "calling", "done", "crashed"
    todo,          \* the (year, day, part) tuples execute has still to visit
    cur,           \* the tuple test_day is working on
    tests,         \* test_day's list of (name, test) pairs
    ti,            \* the index of the test case the for loop is at
    report,        \* the lines written by eprint_info and eprint_error,
                   \* each with the tuple test_day was working on
    builds,        \* the tuple of every execution of the build command
    calls,         \* the arguments of every exec_protocol call, each with
                   \* the tuple and the index of its test case
    alive          \* the number of exec_protocol calls that have not returned

orchInputs == <<has_solution, ntests, build_command>>
orchVars == <<orchInputs, opc, todo, cur, tests, ti, report, builds, calls, alive>>

(***************************************************************************)
(* State of the table layer, src/src/esb/db.py: one Table subclass bound   *)
(* to one sqlite table.                                                    *)
(***************************************************************************)
VARIABLES
    _bound,     \* the class has the attributes _sql and _bound
    table,      \* the rows of the sqlite table
    db_call,    \* the last operation called, with its arguments
    db_before,  \* the rows of the table when that operation was called
    db_out      \* what that operation returned or raised

dbVars == <<_bound, table, db_call, db_before, db_out>>

vars == <<runnerVars, orchVars, dbVars>>

Min(a, b) == IF a <= b THEN a ELSE b

\* a variant of is_file: day_input.exists(), true of a directory too
is_file_Exists(kind) == kind \in {"file", "dir"}

\* day_input.is_file()
is_file(kind) == kind = "file"

\* the child is a live process whose runner has neither returned nor raised
ChildRuns == child_state = "running" /\ pc \in {"launched", "written", "gather"}

\* the child's program reads its stdin now
ChildMayRead ==
    \/ child_kind = "read_first"
    \/ child_kind = "write_first" /\ out_todo = <<>>

\* the child's program writes its stdout now
ChildMayWrite ==
    \/ child_kind \in {"write_first", "ignores"}
    \/ child_kind = "read_first" /\ child_eof

\* asyncio.gather runs proc.wait() and _read_output concurrently
ReaderMayRun == pc = "gather"

(***************************************************************************)
(* exec_protocol, lines 136-137: the input is no regular file.             *)
(***************************************************************************)
InputMissing ==
    /\ pc = "call"
    /\ ~is_file(input_kind)
    /\ result' = Some(FPResult("InputDoesNotExists", None, None, None))
    /\ pc' = "returned"
    /\ UNCHANGED <<dbVars, orchVars, inputVars, stdinVars, childVars, readerVars, wait_res, exc>>

(***************************************************************************)
(* exec_protocol line 139 and create_subprocess_exec, lines 104-109.       *)
(***************************************************************************)
Launch ==
    /\ pc = "call"
    /\ is_file(input_kind)
    /\ child_argv' = BuildCmd(command, part)
    /\ child_state' = "running"
    /\ out_todo' = child_stdout
    /\ in_state' = "open"
    /\ pc' = "launched"
    /\ UNCHANGED <<dbVars, orchVars, inputVars, stdin_writes, in_buf, in_pipe, child_read,
                   child_eof, out_pipe, readerVars, wait_res, result, exc>>

(***************************************************************************)
(* Lines 111-113: the process object has no stdin.                         *)
(***************************************************************************)
StdinMissing ==
    /\ pc = "launched"
    /\ in_state' = "none"
    /\ exc' = Some("RuntimeError")
    /\ pc' = "raised"
    /\ UNCHANGED <<dbVars, orchVars, inputVars, stdin_writes, in_buf, in_pipe, childVars,
                   readerVars, wait_res, result>>

(***************************************************************************)
(* Line 115: proc.stdin.write(day_input.read_text().encode()).  The        *)
(* transport writes what the pipe takes at once and buffers the rest; a    *)
(* pipe whose reader is gone drops the data.                               *)
(***************************************************************************)
WriteInput ==
    /\ pc = "launched"
    /\ ReadTextEncode(file_bytes) # None
    /\ LET data == ReadTextEncode(file_bytes)[1]
           n == Min(PipeCap - Len(in_pipe), Len(data))
       IN  /\ stdin_writes' = Append(stdin_writes, data)
           /\ IF child_state = "exited"
              THEN in_state' = "broken" /\ UNCHANGED <<in_pipe, in_buf>>
              ELSE /\ in_pipe' = in_pipe \o SubSeq(data, 1, n)
                   /\ in_buf' = in_buf \o SubSeq(data, n + 1, Len(data))
                   /\ UNCHANGED in_state
    /\ pc' = "written"
    /\ UNCHANGED <<dbVars, orchVars, inputVars, childVars, readerVars, wait_res, result, exc>>

\* line 115: read_text() raises on bytes that are not UTF-8
ReadTextError ==
    /\ pc = "launched"
    /\ ReadTextEncode(file_bytes) = None
    /\ exc' = Some("UnicodeDecodeError")
    /\ pc' = "raised"
    /\ UNCHANGED <<dbVars, orchVars, inputVars, stdinVars, childVars, readerVars, wait_res, result>>

(***************************************************************************)
(* Line 116: proc.stdin.close() marks the transport as closing; the pipe   *)
(* itself is closed by the event loop once the buffer is flushed.          *)
(***************************************************************************)
CloseInput ==
    /\ pc = "written"
    /\ in_state' = IF in_state = "open" THEN "closing" ELSE in_state
    /\ pc' = "gather"
    /\ UNCHANGED <<dbVars, orchVars, inputVars, stdin_writes, in_buf, in_pipe, childVars,
                   readerVars, wait_res, result, exc>>

(***************************************************************************)
(* Line 118, the event loop while exec_protocol awaits the gather: the     *)
(* write transport flushes its buffer and closes the pipe, the read        *)
(* transport feeds the StreamReader.                                       *)
(***************************************************************************)
FlushStdin ==
    /\ pc = "gather"
    /\ in_state \in {"open", "closing"}
    /\ child_state = "running"
    /\ in_buf # <<>>
    /\ Len(in_pipe) < PipeCap
    /\ LET n == Min(PipeCap - Len(in_pipe), Len(in_buf))
       IN  /\ in_pipe' = in_pipe \o SubSeq(in_buf, 1, n)
           /\ in_buf' = SubSeq(in_buf, n + 1, Len(in_buf))
    /\ UNCHANGED <<dbVars, orchVars, inputVars, pc, stdin_writes, in_state, childVars, readerVars,
                   wait_res, result, exc>>

FinishClose ==
    /\ pc = "gather"
    /\ in_state = "closing"
    /\ in_buf = <<>>
    /\ in_state' = "closed"
    /\ UNCHANGED <<dbVars, orchVars, inputVars, pc, stdin_writes, in_buf, in_pipe, childVars,
                   readerVars, wait_res, result, exc>>

\* the child is gone before the transport was done: the data is dropped
StdinBroken ==
    /\ pc = "gather"
    /\ in_state \in {"open", "closing"}
    /\ child_state = "exited"
    /\ in_state' = "broken"
    /\ in_buf' = <<>>
    /\ UNCHANGED <<dbVars, orchVars, inputVars, pc, stdin_writes, in_pipe, childVars, readerVars,
                   wait_res, result, exc>>

FeedData ==
    /\ pc = "gather"
    /\ out_pipe # <<>>
    /\ sr_buf' = sr_buf \o out_pipe
    /\ out_pipe' = <<>>
    /\ UNCHANGED <<dbVars, orchVars, inputVars, pc, stdinVars, child_state, child_argv, child_read,
                   child_eof, out_todo, sr_eof, ret, lines, echoed, read_res,
                   wait_res, result, exc>>

FeedEof ==
    /\ pc = "gather"
    /\ child_state = "exited"
    /\ out_pipe = <<>>
    /\ ~sr_eof
    /\ sr_eof' = TRUE
    /\ UNCHANGED <<dbVars, orchVars, inputVars, pc, stdinVars, childVars, sr_buf, ret, lines,
                   echoed, read_res, wait_res, result, exc>>

(***************************************************************************)
(* _read_output, lines 89-100: one iteration of the loop, and its end.     *)
(***************************************************************************)
ReadLine ==
    /\ ReaderMayRun
    /\ read_res = None
    /\ HasLine(sr_buf, sr_eof)
    /\ LET n == FirstLineLen(sr_buf)
           line == Decode(SubSeq(sr_buf, 1, n))
       IN  /\ line # None
           /\ ret' = ret \o line[1]
           /\ echoed' = echoed \o EchoOf(ret \o line[1], line[1], lines, threshold)
           /\ lines' = lines + 1
           /\ sr_buf' = SubSeq(sr_buf, n + 1, Len(sr_buf))
    /\ UNCHANGED <<dbVars, orchVars, inputVars, pc, stdinVars, childVars, sr_eof, read_res,
                   wait_res, result, exc>>

\* line 93 raises; the gather and asyncio.run pass the exception on
ReadLineError ==
    /\ ReaderMayRun
    /\ read_res = None
    /\ HasLine(sr_buf, sr_eof)
    /\ Decode(SubSeq(sr_buf, 1, FirstLineLen(sr_buf))) = None
    /\ exc' = Some("UnicodeDecodeError")
    /\ pc' = "raised"
    /\ UNCHANGED <<dbVars, orchVars, inputVars, stdinVars, childVars, readerVars, wait_res, result>>

ReadEnd ==
    /\ ReaderMayRun
    /\ read_res = None
    /\ sr_eof
    /\ sr_buf = <<>>
    /\ read_res' = Some(<<ret, lines>>)
    /\ UNCHANGED <<dbVars, orchVars, inputVars, pc, stdinVars, childVars, sr_buf, sr_eof, ret,
                   lines, echoed, wait_res, result, exc>>

\* proc.wait()
ProcWait ==
    /\ pc = "gather"
    /\ wait_res = None
    /\ child_state = "exited"
    /\ wait_res' = Some(child_exit)
    /\ UNCHANGED <<dbVars, orchVars, inputVars, pc, stdinVars, childVars, readerVars, result, exc>>

\* a variant of Return: the wait for the child is given up
Return_TimesOut ==
    /\ pc = "gather"
    /\ result' = Some(FPResult("ProtocolError", None, None, None))
    /\ pc' = "returned"
    /\ UNCHANGED <<dbVars, orchVars, inputVars, stdinVars, childVars, readerVars, wait_res, exc>>

(***************************************************************************)
(* exec_protocol, lines 140-162: the gather is done, the result is built.  *)
(***************************************************************************)
Return ==
    /\ pc = "gather"
    /\ wait_res # None
    /\ read_res # None
    /\ result' = Some(Classify(wait_res[1], read_res[1][1], read_res[1][2]))
    /\ pc' = "returned"
    /\ UNCHANGED <<dbVars, orchVars, inputVars, stdinVars, childVars, readerVars, wait_res, exc>>

(***************************************************************************)
(* The child process.                                                      *)
(***************************************************************************)
ChildRead ==
    /\ ChildRuns
    /\ ChildMayRead
    /\ in_pipe # <<>>
    /\ child_read' = Append(child_read, Head(in_pipe))
    /\ in_pipe' = Tail(in_pipe)
    /\ UNCHANGED <<dbVars, orchVars, inputVars, pc, stdin_writes, in_buf, in_state, child_state,
                   child_argv, child_eof, out_todo, out_pipe, readerVars,
                   wait_res, result, exc>>

ChildEof ==
    /\ ChildRuns
    /\ ChildMayRead
    /\ ~child_eof
    /\ in_pipe = <<>>
    /\ in_state = "closed"
    /\ child_eof' = TRUE
    /\ UNCHANGED <<dbVars, orchVars, inputVars, pc, stdinVars, child_state, child_argv, child_read,
                   out_todo, out_pipe, readerVars, wait_res, result, exc>>

ChildWrite ==
    /\ ChildRuns
    /\ ChildMayWrite
    /\ out_todo # <<>>
    /\ Len(out_pipe) < PipeCap
    /\ out_pipe' = Append(out_pipe, Head(out_todo))
    /\ out_todo' = Tail(out_todo)
    /\ UNCHANGED <<dbVars, orchVars, inputVars, pc, stdinVars, child_state, child_argv, child_read,
                   child_eof, readerVars, wait_res, result, exc>>

ChildExit ==
    /\ ChildRuns
    /\ out_todo = <<>>
    /\ child_kind = "ignores" \/ child_eof
    /\ child_state' = "exited"
    /\ UNCHANGED <<dbVars, orchVars, inputVars, pc, stdinVars, child_argv, child_read, child_eof,
                   out_todo, out_pipe, readerVars, wait_res, result, exc>>

(***************************************************************************)
(* The test command, src/src/esb/commands/test.py.                         *)
(*                                                                         *)
(* Python values that are converted with str() carry their type: an int    *)
(* is [t |-> "int", v |-> 7], a str is [t |-> "str", v |-> <<"7">>].       *)
(***************************************************************************)
PyInt(n) == [t |-> "int", v |-> n]
PyStr(s) == [t |-> "str", v |-> s]

DigitChar(d) ==
    CASE d = 0 -> "0" [] d = 1 -> "1" [] d = 2 -> "2" [] d = 3 -> "3"
      [] d = 4 -> "4" [] d = 5 -> "5" [] d = 6 -> "6" [] d = 7 -> "7"
      [] d = 8 -> "8" [] d = 9 -> "9"

RECURSIVE NatToStr(_)
NatToStr(n) == IF n < 10 THEN <<DigitChar(n)>>
               ELSE NatToStr(n \div 10) \o <<DigitChar(n % 10)>>

\* str(x)
str(x) == IF x.t = "int"
          THEN (IF x.v < 0 THEN <<"-">> \o NatToStr(-x.v) ELSE NatToStr(x.v))
          ELSE x.v

Years == <<2020>>
Days == <<9>>
Parts == <<1, 2>>

\* itertools.product(years, days, parts), in its order
Product(ys, ds, ps) ==
    [k \in 1..(Len(ys) * Len(ds) * Len(ps)) |->
        <<ys[((k - 1) \div (Len(ds) * Len(ps))) + 1],
          ds[(((k - 1) \div Len(ps)) % Len(ds)) + 1],
          ps[((k - 1) % Len(ps)) + 1]>>]

\* the test cases a fixture file declares, in order
TestPool ==
    <<[name |-> "example1", input |-> "in1", args |-> None, answer |-> PyInt(7)],
      [name |-> "example2", input |-> "in2", args |-> Some(<<PyInt(1)>>),
       answer |-> PyStr(<<"7">>)],
      [name |-> "example3", input |-> "in3", args |-> Some(<<PyStr(<<"x">>)>>),
       answer |-> PyInt(8)]>>

\* find_tests(year, day, part)
find_tests(day, p) == SubSeq(TestPool, 1, ntests[<<day, p>>])

\* a variant of SolutionMissing: the check of line 53 left out
SolutionMissing_Unchecked(day) == FALSE

\* line 53: find_solution(lang, year, day) is None
SolutionMissing(day) == ~has_solution[day]

\* line 56: tests == []
NoTests(ts) == ts = <<>>

\* what the protocol runner may hand back to the test command
RunnerResults ==
    {FPResult("Ok", Some(<<"7">>), Some(15), Some("nano")),
     FPResult("Ok", Some(<<"8">>), None, None),
     FPResult("ProtocolError", None, None, None),
     FPResult("InputDoesNotExists", None, None, None)}

\* lines 69-70: the args of a test case become strings
StrArgs(test) ==
    IF test.args = None THEN test
    ELSE [test EXCEPT !.args =
            Some([i \in 1..Len(test.args[1]) |-> PyStr(str(test.args[1][i]))])]

\* a variant of ReportLine: the answers are not compared
ReportLine_AnyOkSucceeds(res, name, p, test) ==
    IF res.status = "Ok"
    THEN [kind |-> "success", name |-> name, part |-> p,
          answer |-> res.answer, expected |-> None]
    ELSE [kind |-> "could_not_run", name |-> name, part |-> None,
          answer |-> None, expected |-> None]

\* lines 74-80: the line reported for a result
ReportLine(res, name, p, test) ==
    IF res.status = "Ok" /\ res.answer = Some(str(test.answer))
    THEN [kind |-> "success", name |-> name, part |-> p,
          answer |-> res.answer, expected |-> None]
    ELSE IF res.status = "Ok"
         THEN [kind |-> "mismatch", name |-> name, part |-> p,
               answer |-> res.answer, expected |-> Some(test.answer)]
         ELSE [kind |-> "could_not_run", name |-> name, part |-> None,
               answer |-> None, expected |-> None]

\* line 72
InfoLine(year, day, p) ==
    [kind |-> "info", name |-> "", part |-> p,
     answer |-> None, expected |-> None]

\* lines 43-44 and 53-54: the next tuple has no solution file
SkipNoSolution ==
    /\ opc = "loop"
    /\ todo # <<>>
    /\ SolutionMissing(Head(todo)[2])
    /\ todo' = Tail(todo)
    /\ cur' = Head(todo)
    /\ UNCHANGED <<dbVars, runnerVars, orchInputs, opc, tests, ti, report, builds,
                   calls, alive>>

\* lines 43-44 and 56-57: the next tuple has a solution and no test case
SkipNoTests ==
    /\ opc = "loop"
    /\ todo # <<>>
    /\ ~SolutionMissing(Head(todo)[2])
    /\ NoTests(find_tests(Head(todo)[2], Head(todo)[3]))
    /\ todo' = Tail(todo)
    /\ cur' = Head(todo)
    /\ tests' = <<>>
    /\ UNCHANGED <<dbVars, runnerVars, orchInputs, opc, ti, report, builds, calls, alive>>

\* lines 43-44 and 53-62: the next tuple has a solution and test cases
EnterDay ==
    /\ opc = "loop"
    /\ todo # <<>>
    /\ ~SolutionMissing(Head(todo)[2])
    /\ ~NoTests(find_tests(Head(todo)[2], Head(todo)[3]))
    /\ todo' = Tail(todo)
    /\ cur' = Head(todo)
    /\ tests' = find_tests(Head(todo)[2], Head(todo)[3])
    /\ opc' = "build"
    /\ UNCHANGED <<dbVars, runnerVars, orchInputs, ti, report, builds, calls, alive>>

\* a variant of AfterBuildError: the error is caught and the tests are run
AfterBuildError_Swallowed == "tests"

\* lines 63-64: nothing catches an error raised by runner.exec_command, so
\* it leaves test_day and execute and the command is over
AfterBuildError == "crashed"

\* the line LangRunner.exec_command reports when the build command fails
BuildFailedLine ==
    [kind |-> "build_failed", name |-> "", part |-> None,
     answer |-> None, expected |-> None]

\* lines 63-64: the build command fails; exec_command reports it and raises
BuildFails ==
    /\ opc = "build"
    /\ build_command # None
    /\ builds' = Append(builds, cur)
    /\ report' = Append(report, [at |-> cur, test |-> 0, res |-> None,
                                 line |-> BuildFailedLine])
    /\ exc' = Some("BuildFailed")
    /\ ti' = 1
    /\ opc' = AfterBuildError
    /\ UNCHANGED <<dbVars, inputVars, pc, stdinVars, childVars, readerVars, wait_res,
                   result, orchInputs, todo, cur, tests, calls, alive>>

\* lines 63-66: the build command, when there is one
Build ==
    /\ opc = "build"
    /\ builds' = IF build_command # None THEN Append(builds, cur) ELSE builds
    /\ ti' = 1
    /\ opc' = "tests"
    /\ UNCHANGED <<dbVars, runnerVars, orchInputs, todo, cur, tests, report, calls, alive>>

\* a variant of LoopAtTest: a call is started while one is in flight
LoopAtTest_Overlapping == opc \in {"tests", "calling"} /\ ti <= Len(tests)

\* line 67: the for loop is at a test case; exec_protocol of line 73 is an
\* ordinary call, so the loop is not here while a call is in flight
LoopAtTest == opc = "tests" /\ ti <= Len(tests)

\* lines 67-73: one test case, up to the call of exec_protocol
StartTest ==
    /\ LoopAtTest
    /\ tests' = [tests EXCEPT ![ti] = StrArgs(tests[ti])]
    /\ report' = Append(report, [at |-> cur, test |-> ti, res |-> None,
                                 line |-> InfoLine(cur[1], cur[2], cur[3])])
    /\ calls' = Append(calls, [part |-> cur[3], args |-> StrArgs(tests[ti]).args,
                               input |-> tests[ti].input,
                               at |-> cur, test |-> ti])
    /\ alive' = alive + 1
    /\ opc' = "calling"
    /\ UNCHANGED <<dbVars, runnerVars, orchInputs, todo, cur, ti, builds>>

\* lines 73-80: exec_protocol returns and the outcome is reported
RunnerReturn ==
    /\ opc = "calling"
    /\ \E res \in RunnerResults :
          report' = Append(report,
                           [at |-> cur, test |-> ti, res |-> Some(res),
                            line |-> ReportLine(res, tests[ti].name, cur[3],
                                                tests[ti])])
    /\ alive' = alive - 1
    /\ ti' = ti + 1
    /\ opc' = "tests"
    /\ UNCHANGED <<dbVars, runnerVars, orchInputs, todo, cur, tests, builds, calls>>

\* the exceptions exec_protocol lets out: "Could not open stdin" and the
\* decoding errors of read_text and of _read_output
RunnerErrors == {"RuntimeError", "UnicodeDecodeError"}

\* line 73: exec_protocol raises; nothing in test_day or execute catches it,
\* so the exception leaves execute and the command is over
RunnerRaise ==
    /\ opc = "calling"
    /\ \E e \in RunnerErrors : exc' = Some(e)
    /\ alive' = alive - 1
    /\ opc' = "crashed"
    /\ UNCHANGED <<dbVars, inputVars, pc, stdinVars, childVars, readerVars, wait_res,
                   result, orchInputs, todo, cur, tests, ti, report,
                   builds, calls>>

\* line 67: the for loop of test_day is over
EndDay ==
    /\ opc = "tests"
    /\ ti > Len(tests)
    /\ opc' = "loop"
    /\ UNCHANGED <<dbVars, runnerVars, orchInputs, todo, cur, tests, ti, report,
                   builds, calls, alive>>

\* line 43: the loop of execute is over
Finish ==
    /\ opc = "loop"
    /\ todo = <<>>
    /\ opc' = "done"
    /\ UNCHANGED <<dbVars, runnerVars, orchInputs, todo, cur, tests, ti, report,
                   builds, calls, alive>>

(***************************************************************************)
(* The table layer, src/src/esb/db.py.                                     *)
(*                                                                         *)
(* The Table subclass has the fields idx, value and text and its sqlite    *)
(* table is the one tests/test_db.py creates: idx INTEGER NOT NULL PRIMARY *)
(* KEY, and the columns value and text declared without a type.  A Python  *)
(* value carries its type, as PyInt and PyStr do; a stored row is the      *)
(* tuple of its column values in the order of the CREATE TABLE statement.  *)
(***************************************************************************)
MaxKey == 2

PyNone == [t |-> "none", v |-> 0]
PyDatetime(n) == [t |-> "datetime", v |-> n]

\* a bool, with its value as the int it is: False is 0 and True is 1
PyBool(b) == [t |-> "bool", v |-> IF b THEN 1 ELSE 0]

\* val.isoformat(" "), the text sqlite3 binds for a datetime
IsoFormat(n) ==
    <<"2", "0", "2", "4", "-", "1", "2", "-", "0", DigitChar(n),
      " ", "0", "0", ":", "0", "0", ":", "0", "0">>

\* sqlite3 binds a Python value to a placeholder: int, str and None as they
\* are, a bool as the integer it is, a datetime through the default adapter
\* as text
Adapt(x) ==
    IF x.t = "datetime" THEN PyStr(IsoFormat(x.v))
    ELSE IF x.t = "bool" THEN PyInt(x.v)
    ELSE x

\* cls.__annotations__.keys(), in the order of the declarations
Annotations == <<"idx", "value", "text">>

\* the columns of the table, in the order of CREATE TABLE
SchemaColumns == <<"idx", "value", "text">>

\* the column c of a row of a table whose columns are cols
FieldOf(cols, row, c) == row[CHOOSE i \in 1..Len(cols) : cols[i] = c]

\* the column c of a stored row
Field(row, c) == FieldOf(SchemaColumns, row, c)

\* line 79: {column: getattr(self, column, None) for column in self._columns}
to_dict(obj) == [c \in {Annotations[i] : i \in 1..Len(Annotations)} |-> obj[c]]

\* the row an INSERT of the dictionary d stores
RowOf(d) == [i \in 1..Len(SchemaColumns) |-> Adapt(d[SchemaColumns[i]])]

\* line 94: cls(**dict(zip(cls.__annotations__.keys(), row)))
build_class(row) ==
    LET at(c) == row[CHOOSE i \in 1..Len(Annotations) : Annotations[i] = c]
    IN  [idx |-> at("idx"), value |-> at("value"), text |-> at("text")]

\* the comparison column = :value of a WHERE clause: NULL equals nothing
SqlEq(a, b) == a.t # "none" /\ b.t # "none" /\ a.t = b.t /\ a.v = b.v

\* the rows a WHERE clause made of the dictionary cond selects in a table
\* whose columns are cols
WhereOf(cols, tbl, cond) ==
    {r \in tbl : \A c \in DOMAIN cond : SqlEq(FieldOf(cols, r, c), Adapt(cond[c]))}

\* the rows a WHERE clause made of the dictionary cond selects
Where(tbl, cond) == WhereOf(SchemaColumns, tbl, cond)

\* cursor.fetchall(): the selected rows in the order of their rowid, idx
Fetchall(rows) ==
    CHOOSE f \in [1..Cardinality(rows) -> rows] :
        \A i, j \in 1..Cardinality(rows) :
            i < j => Field(f[i], "idx").v < Field(f[j], "idx").v

Objects(rows) == [i \in 1..Len(rows) |-> build_class(rows[i])]

EmptyDict == [c \in {} |-> PyNone]

\* what an operation returns or raises, and the table it leaves
Returns(kind, rows, tbl) == [out |-> [kind |-> kind, rows |-> rows], tbl |-> tbl]
Raises(error, tbl) == [out |-> [kind |-> error, rows |-> <<>>], tbl |-> tbl]

\* a variant of check_connection: the wrapped function is always called
check_connection_Unchecked(res) == res

\* lines 97-104: the wrapper made by check_connection
check_connection(res) ==
    IF ~_bound THEN Raises("ValueError: Table not bound", table) ELSE res

\* lines 107-110
non_empty_dictionary(arg) == DOMAIN arg # {}

\* lines 127-131, consumed by list()
fetch_all(tbl) == Returns("list", Objects(Fetchall(tbl)), tbl)

\* lines 135-141
fetch_one(tbl) ==
    IF tbl = {} THEN Returns("None", <<>>, tbl)
    ELSE Returns("row", <<build_class(Fetchall(tbl)[1])>>, tbl)

\* a variant of fetch_single: the first row of a table that is not empty
fetch_single_First(tbl) ==
    LET rows == fetch_all(tbl).out.rows
    IN  IF Len(rows) = 0 THEN Raises("RuntimeError: should have one row", tbl)
        ELSE Returns("row", <<rows[1]>>, tbl)

\* lines 145-150
fetch_single(tbl) ==
    LET rows == fetch_all(tbl).out.rows
    IN  IF Len(rows) # 1 THEN Raises("RuntimeError: should have one row", tbl)
        ELSE Returns("row", <<rows[1]>>, tbl)

\* lines 154-160, consumed by list()
find(tbl, match) ==
    IF ~non_empty_dictionary(match)
    THEN Raises("ValueError: empty dictionary", tbl)
    ELSE Returns("list", Objects(Fetchall(Where(tbl, match))), tbl)

\* lines 164-173
find_one(tbl, match) ==
    IF ~non_empty_dictionary(match)
    THEN Raises("ValueError: empty dictionary", tbl)
    ELSE IF Where(tbl, match) = {} THEN Returns("None", <<>>, tbl)
    ELSE Returns("row", <<build_class(Fetchall(Where(tbl, match))[1])>>, tbl)

\* lines 177-186
find_single(tbl, match) ==
    LET found == find(tbl, match)
        rows == found.out.rows
    IN  IF found.out.kind # "list" THEN found
        ELSE IF Len(rows) = 0 THEN Returns("None", <<>>, tbl)
        ELSE IF Len(rows) = 1 THEN Returns("row", <<rows[1]>>, tbl)
        ELSE Raises("RuntimeError: should have found one or zero rows", tbl)

\* lines 189-199: INSERT, or INSERT OR REPLACE, of the dictionary d of the
\* object obj into a table with the columns cols and the primary key pk; a
\* second row with the same primary key is a conflict
InsertInto(cols, pk, tbl, obj, d, replace) ==
    LET row == [i \in 1..Len(cols) |-> Adapt(d[cols[i]])]
        same == {r \in tbl :
                   \A c \in pk : SqlEq(FieldOf(cols, r, c), FieldOf(cols, row, c))}
    IN  IF same = {} THEN Returns("self", <<obj>>, tbl \cup {row})
        ELSE IF replace THEN Returns("self", <<obj>>, (tbl \ same) \cup {row})
        ELSE Raises("IntegrityError", tbl)

\* obj.insert(replace=replace) on the table with the primary key idx
insert(tbl, obj, replace) ==
    InsertInto(SchemaColumns, {"idx"}, tbl, obj, to_dict(obj), replace)

\* the row an UPDATE makes of row r with SET taken from the dictionary set
SetColumnsOf(cols, r, set) ==
    [i \in 1..Len(cols) |->
        IF cols[i] \in DOMAIN set THEN Adapt(set[cols[i]]) ELSE r[i]]

SetColumns(r, set) == SetColumnsOf(SchemaColumns, r, set)

\* lines 202-211: d = self.to_dict() | key; where_values are the columns of
\* d that are not in key; UPDATE ... SET <key columns> WHERE <where_values>,
\* on a table with the columns cols and the primary key pk
UpdateWhere(cols, pk, tbl, self_dict, key) ==
    LET d == [c \in DOMAIN self_dict \cup DOMAIN key |->
                IF c \in DOMAIN key THEN key[c] ELSE self_dict[c]]
        where_values == [c \in DOMAIN d \ DOMAIN key |-> d[c]]
        hit == WhereOf(cols, tbl, where_values)
        new == (tbl \ hit) \cup {SetColumnsOf(cols, r, key) : r \in hit}
    IN  IF DOMAIN key = {} \/ DOMAIN where_values = {}
        THEN Raises("OperationalError", tbl)
        ELSE IF \/ Cardinality(new) # Cardinality(tbl)
                \/ \E r1, r2 \in new :
                      /\ r1 # r2
                      /\ \A c \in pk : FieldOf(cols, r1, c) = FieldOf(cols, r2, c)
        THEN Raises("IntegrityError", tbl)
        ELSE Returns("None", <<>>, new)

\* obj.update(key) on the table with the primary key idx
update(tbl, obj, key) ==
    UpdateWhere(SchemaColumns, {"idx"}, tbl, to_dict(obj), key)

(***************************************************************************)
(* ECALanguage, lines 249-268, and its table, lines 312-320: the primary   *)
(* key is (year, day, language); started and the two finished columns are  *)
(* INT columns that hold the bools of the object as 0 and 1.               *)
(***************************************************************************)
LanguageColumns ==
    <<"year", "day", "language", "started", "finished_pt1", "finished_pt2">>

LanguageKey == {"year", "day", "language"}

\* to_dict of an ECALanguage object
LanguageDict(obj) ==
    [c \in {LanguageColumns[i] : i \in 1..Len(LanguageColumns)} |-> obj[c]]

\* bool(x) of __post_init__: None and 0 are False
Bool(x) == PyBool(x.t # "none" /\ x.v # 0)

\* build_class for ECALanguage with its __post_init__, lines 257-261
ECALanguage(row) ==
    [year |-> row[1], day |-> row[2], language |-> row[3],
     started |-> Bool(row[4]), finished_pt1 |-> Bool(row[5]),
     finished_pt2 |-> Bool(row[6])]

\* a variant of FinishedColumn: the column of part 1 for either part
FinishedColumn_Part1(p) == "finished_pt1"

\* f"finished_pt{part}"
FinishedColumn(p) == IF p = 1 THEN "finished_pt1" ELSE "finished_pt2"

\* lines 264-265: self.update({f"finished_pt{part}": True})
set_solved(tbl, obj, p) ==
    UpdateWhere(LanguageColumns, LanguageKey, tbl, LanguageDict(obj),
                [c \in {FinishedColumn(p)} |-> PyBool(TRUE)])

\* lines 267-268: self.update({f"finished_pt{part}": False})
set_unsolved(tbl, obj, p) ==
    UpdateWhere(LanguageColumns, LanguageKey, tbl, LanguageDict(obj),
                [c \in {FinishedColumn(p)} |-> PyBool(FALSE)])

(***************************************************************************)
(* The objects and dictionaries the operations are called with.            *)
(***************************************************************************)
Keys == 1..MaxKey
Values == {PyInt(123), PyInt(321), PyNone, PyDatetime(1)}
Texts == {PyStr(<<"a", "b", "c">>)}

\* the values a match dictionary looks for
MatchValues == {PyInt(123), PyInt(321), PyNone}
MatchTexts == Texts \cup {PyStr(<<"n", "o">>)}

TableObjects ==
    {[idx |-> PyInt(k), value |-> v, text |-> t] : k \in Keys, v \in Values, t \in Texts}

NoObject == [idx |-> PyNone, value |-> PyNone, text |-> PyNone]

Dict1(c, x) == [col \in {c} |-> x]
Dict2(c1, x1, c2, x2) == [col \in {c1, c2} |-> IF col = c1 THEN x1 ELSE x2]

\* the key dictionaries update is called with
UpdateKeys(obj) ==
    {Dict1("idx", PyInt(k)) : k \in Keys}
        \cup {Dict1("value", obj.value), EmptyDict, to_dict(obj)}

\* the match dictionaries find, find_one and find_single are called with
Matches ==
    {Dict1("idx", PyInt(k)) : k \in Keys}
        \cup {Dict1("value", v) : v \in MatchValues}
        \cup {Dict1("text", t) : t \in MatchTexts}
        \cup {Dict2("value", v, "text", t) : v \in MatchValues, t \in Texts}
        \cup {EmptyDict}

DbNoCall == [op |-> "none", obj |-> NoObject, arg |-> EmptyDict, replace |-> FALSE]

\* the class has no connection, the table is empty, nothing was called
DbIdle ==
    /\ _bound = FALSE
    /\ table = {}
    /\ db_call = DbNoCall
    /\ db_before = {}
    /\ db_out = [kind |-> "none", rows |-> <<>>]

\* the operation called and its arguments
Called(op, obj, arg, replace) == [op |-> op, obj |-> obj, arg |-> arg, replace |-> replace]

\* lines 82-84
bind_connection ==
    /\ _bound' = TRUE
    /\ db_call' = [DbNoCall EXCEPT !.op = "bind_connection"]
    /\ db_before' = table
    /\ db_out' = [kind |-> "None", rows |-> <<>>]
    /\ UNCHANGED <<table, runnerVars, orchVars>>

\* lines 87-90
disconnect ==
    /\ _bound' = FALSE
    /\ db_call' = [DbNoCall EXCEPT !.op = "disconnect"]
    /\ db_before' = table
    /\ db_out' = [kind |-> "None", rows |-> <<>>]
    /\ UNCHANGED <<table, runnerVars, orchVars>>

\* obj.insert(replace=replace)
CallInsert ==
    \E obj \in TableObjects, replace \in BOOLEAN :
        /\ db_call' = Called("insert", obj, EmptyDict, replace)
        /\ db_before' = table
        /\ LET r == check_connection(insert(table, obj, replace))
           IN  table' = r.tbl /\ db_out' = r.out
        /\ UNCHANGED <<_bound, runnerVars, orchVars>>

\* obj.update(key)
CallUpdate ==
    \E obj \in TableObjects : \E key \in UpdateKeys(obj) :
        /\ db_call' = Called("update", obj, key, FALSE)
        /\ db_before' = table
        /\ LET r == check_connection(update(table, obj, key))
           IN  table' = r.tbl /\ db_out' = r.out
        /\ UNCHANGED <<_bound, runnerVars, orchVars>>

\* list(cls.fetch_all())
CallFetchAll ==
    /\ db_call' = Called("fetch_all", NoObject, EmptyDict, FALSE)
    /\ db_before' = table
    /\ LET r == check_connection(fetch_all(table))
       IN  table' = r.tbl /\ db_out' = r.out
    /\ UNCHANGED <<_bound, runnerVars, orchVars>>

\* cls.fetch_one()
CallFetchOne ==
    /\ db_call' = Called("fetch_one", NoObject, EmptyDict, FALSE)
    /\ db_before' = table
    /\ LET r == check_connection(fetch_one(table))
       IN  table' = r.tbl /\ db_out' = r.out
    /\ UNCHANGED <<_bound, runnerVars, orchVars>>

\* cls.fetch_single()
CallFetchSingle ==
    /\ db_call' = Called("fetch_single", NoObject, EmptyDict, FALSE)
    /\ db_before' = table
    /\ LET r == check_connection(fetch_single(table))
       IN  table' = r.tbl /\ db_out' = r.out
    /\ UNCHANGED <<_bound, runnerVars, orchVars>>

\* list(cls.find(match))
CallFind ==
    \E match \in Matches :
        /\ db_call' = Called("find", NoObject, match, FALSE)
        /\ db_before' = table
        /\ LET r == check_connection(find(table, match))
           IN  table' = r.tbl /\ db_out' = r.out
        /\ UNCHANGED <<_bound, runnerVars, orchVars>>

\* cls.find_one(match)
CallFindOne ==
    \E match \in Matches :
        /\ db_call' = Called("find_one", NoObject, match, FALSE)
        /\ db_before' = table
        /\ LET r == check_connection(find_one(table, match))
           IN  table' = r.tbl /\ db_out' = r.out
        /\ UNCHANGED <<_bound, runnerVars, orchVars>>

\* cls.find_single(match)
CallFindSingle ==
    \E match \in Matches :
        /\ db_call' = Called("find_single", NoObject, match, FALSE)
        /\ db_before' = table
        /\ LET r == check_connection(find_single(table, match))
           IN  table' = r.tbl /\ db_out' = r.out
        /\ UNCHANGED <<_bound, runnerVars, orchVars>>

\* the ECALanguage objects of the archive: a language of the days 1..MaxKey
LanguageObjects ==
    {[year |-> PyInt(2020), day |-> PyInt(k), language |-> PyStr(<<"p", "y">>),
      started |-> PyBool(TRUE), finished_pt1 |-> PyBool(f1),
      finished_pt2 |-> PyBool(f2)] : k \in Keys, f1 \in BOOLEAN, f2 \in BOOLEAN}

\* ECALanguage(...).insert(replace=replace)
CallLanguageInsert ==
    \E obj \in LanguageObjects, replace \in BOOLEAN :
        /\ db_call' = Called("insert", obj, EmptyDict, replace)
        /\ db_before' = table
        /\ LET r == check_connection(InsertInto(LanguageColumns, LanguageKey, table,
                                                obj, LanguageDict(obj), replace))
           IN  table' = r.tbl /\ db_out' = r.out
        /\ UNCHANGED <<_bound, runnerVars, orchVars>>

\* obj.set_solved(p); the update it calls is wrapped by check_connection
CallSetSolved ==
    \E obj \in LanguageObjects, p \in {1, 2} :
        /\ db_call' = Called("set_solved", obj, [part |-> PyInt(p)], FALSE)
        /\ db_before' = table
        /\ LET r == check_connection(set_solved(table, obj, p))
           IN  table' = r.tbl /\ db_out' = r.out
        /\ UNCHANGED <<_bound, runnerVars, orchVars>>

\* obj.set_unsolved(p)
CallSetUnsolved ==
    \E obj \in LanguageObjects, p \in {1, 2} :
        /\ db_call' = Called("set_unsolved", obj, [part |-> PyInt(p)], FALSE)
        /\ db_before' = table
        /\ LET r == check_connection(set_unsolved(table, obj, p))
           IN  table' = r.tbl /\ db_out' = r.out
        /\ UNCHANGED <<_bound, runnerVars, orchVars>>

(***************************************************************************)
(* Inputs.                                                                 *)
(***************************************************************************)
Commands == {<<"run">>, <<"python", "main.py">>}

FileAlphabet == {"a", CR, NL, BadByte}

RECURSIVE SeqsUpTo(_, _)
SeqsUpTo(S, n) ==
    IF n = 0 THEN {<<>>}
    ELSE LET shorter == SeqsUpTo(S, n - 1)
         IN  shorter \cup {Append(q, c) : q \in {r \in shorter : Len(r) = n - 1},
                                         c \in S}

FileContents == SeqsUpTo(FileAlphabet, MaxInput)

\* the stdout of the children of the pipe-level specification
PipeOutputs ==
    {<<>>,
     <<"7", NL>>,
     <<"7", NL, "R", "T", " ", "1", " ", "s", NL>>,
     <<"7", NL, "7", NL, "7", NL>>,
     <<BadByte, NL>>}

\* first lines, second lines and further lines of the stdout of the
\* children of the classification specification (without their newline)
Line1Set ==
    {<<"4", "2">>, <<>>, <<" ", "4", "2">>, <<"4", "2", " ">>, <<" ">>,
     <<"4", BadByte>>}

Line2Set ==
    {<<"R", "T", " ", "1", "5", " ", "n", "s">>,
     <<"R", "T", " ", "1", "5", "0", "0", " ", "n", "s">>,
     <<"R", "T", " ", "1", "5", " ", "u", "s">>,
     <<"R", "T", " ", "1", "5", " ", Micro, "s">>,
     <<"R", "T", " ", "1", "5", " ", "m", "s">>,
     <<"R", "T", " ", "0", " ", "s">>,
     <<"R", "T", " ", "-", "5", " ", "m", "s">>,
     <<" ", "R", "T", " ", " ", "1", "5", "\t", "n", "s", " ">>,
     <<"R", "T", " ", "o", "o", "p", "s">>,
     <<"R", "T", " ", "1", "5", " ", "x", "s">>,
     <<"R", "T", " ", "x", "5", " ", "n", "s">>,
     <<"R", "T", " ", "1", "5">>,
     <<"R", "T", " ", "1", "5", " ", "n", "s", " ", "x">>,
     <<"X", "X", " ", "1", "5", " ", "n", "s">>,
     <<"r", "t", " ", "1", "5", " ", "n", "s">>,
     <<"4", "2">>,
     <<>>,
     <<" ">>,
     <<BadByte>>}

ExtraLineSet == {<<"x">>, <<>>}

RECURSIVE JoinLines(_)
JoinLines(ls) == IF ls = <<>> THEN <<>> ELSE Head(ls) \o <<NL>> \o JoinLines(Tail(ls))

\* the lists of lines a child of the classification specification writes
LineLists ==
    {<<>>}
    \cup {<<a>> : a \in Line1Set}
    \cup {<<a, b>> \o e : a \in Line1Set, b \in Line2Set,
                          e \in SeqsUpTo(ExtraLineSet, MaxExtra)}

\* each list of lines as bytes, its last newline present or missing
ClassifyOutputs ==
    {JoinLines(ls) : ls \in LineLists}
    \cup {SubSeq(JoinLines(ls), 1, Len(JoinLines(ls)) - 1) :
            ls \in {l \in LineLists : l # <<>> /\ l[Len(l)] # <<>>}}

\* the test command before execute is called
OrchIdle ==
    /\ has_solution = [d \in {Days[i] : i \in 1..Len(Days)} |-> FALSE]
    /\ ntests = [t \in {<<Days[i], Parts[j]>> : i \in 1..Len(Days),
                                               j \in 1..Len(Parts)} |-> 0]
    /\ build_command = None
    /\ opc = "loop"
    /\ todo = Product(Years, Days, Parts)
    /\ cur = None
    /\ tests = <<>>
    /\ ti = 1
    /\ report = <<>>
    /\ builds = <<>>
    /\ calls = <<>>
    /\ alive = 0

\* no child has been launched and nothing has been read or written
RunnerFresh ==
    /\ child_state = "none"
    /\ child_argv = <<>>
    /\ stdin_writes = <<>>
    /\ in_buf = <<>>
    /\ in_pipe = <<>>
    /\ in_state = "none"
    /\ child_read = <<>>
    /\ child_eof = FALSE
    /\ out_todo = <<>>
    /\ out_pipe = <<>>
    /\ sr_buf = <<>>
    /\ sr_eof = FALSE
    /\ ret = <<>>
    /\ lines = 0
    /\ echoed = <<>>
    /\ wait_res = None
    /\ read_res = None
    /\ result = None
    /\ exc = None

(***************************************************************************)
(* Spec: one call of exec_protocol with its child, pipes and event loop.   *)
(***************************************************************************)
Init ==
    /\ command \in Commands
    /\ part \in {1, 2}
    /\ input_kind \in {"file", "dir", "missing"}
    /\ file_bytes \in IF input_kind = "file" THEN FileContents ELSE {<<>>}
    /\ child_kind \in {"read_first", "write_first", "ignores"}
    /\ child_exit \in {0, 1}
    /\ child_stdout \in PipeOutputs
    /\ pc = "call"
    /\ RunnerFresh
    /\ OrchIdle
    /\ DbIdle

Next ==
    \/ InputMissing
    \/ Launch
    \/ StdinMissing
    \/ WriteInput
    \/ ReadTextError
    \/ CloseInput
    \/ FlushStdin
    \/ FinishClose
    \/ StdinBroken
    \/ FeedData
    \/ FeedEof
    \/ ReadLine
    \/ ReadLineError
    \/ ReadEnd
    \/ ProcWait
    \/ Return
    \/ ChildRead
    \/ ChildEof
    \/ ChildWrite
    \/ ChildExit

Spec == Init /\ [][Next]_vars

\* the runner, the event loop and the child keep taking the steps they can
SpecLive == Init /\ [][Next]_vars /\ WF_vars(Next)

(***************************************************************************)
(* SpecClassify: the reading loop and the classification, on a wide set of *)
(* child outputs.  It starts where the child has written its stdout and    *)
(* has exited, and the event loop has fed all of it to the StreamReader.   *)
(***************************************************************************)
InitClassify ==
    /\ command = <<"run">>
    /\ part \in {1, 2}
    /\ input_kind = "file"
    /\ file_bytes = <<>>
    /\ child_kind = "read_first"
    /\ child_exit \in {0, 1}
    /\ child_stdout \in ClassifyOutputs
    /\ pc = "gather"
    /\ child_state = "exited"
    /\ child_argv = BuildCmd(command, part)
    /\ stdin_writes = <<<<>>>>
    /\ in_buf = <<>>
    /\ in_pipe = <<>>
    /\ in_state = "closed"
    /\ child_read = <<>>
    /\ child_eof = TRUE
    /\ out_todo = <<>>
    /\ out_pipe = <<>>
    /\ sr_buf = child_stdout
    /\ sr_eof = TRUE
    /\ ret = <<>>
    /\ lines = 0
    /\ echoed = <<>>
    /\ wait_res = None
    /\ read_res = None
    /\ result = None
    /\ exc = None
    /\ OrchIdle
    /\ DbIdle

NextClassify ==
    \/ ReadLine
    \/ ReadLineError
    \/ ReadEnd
    \/ ProcWait
    \/ Return

SpecClassify == InitClassify /\ [][NextClassify]_vars

(***************************************************************************)
(* SpecTest: the test command; exec_protocol is its environment.           *)
(***************************************************************************)
DaySet == {Days[i] : i \in 1..Len(Days)}
TupleSet == {<<Days[i], Parts[j]>> : i \in 1..Len(Days), j \in 1..Len(Parts)}

InitTest ==
    /\ has_solution \in [DaySet -> BOOLEAN]
    /\ ntests \in [TupleSet -> 0..MaxTests]
    /\ build_command \in {None, Some(<<"make">>)}
    /\ opc = "loop"
    /\ todo = Product(Years, Days, Parts)
    /\ cur = None
    /\ tests = <<>>
    /\ ti = 1
    /\ report = <<>>
    /\ builds = <<>>
    /\ calls = <<>>
    /\ alive = 0
    /\ command = <<"run">>
    /\ part = 1
    /\ input_kind = "file"
    /\ file_bytes = <<>>
    /\ child_kind = "read_first"
    /\ child_exit = 0
    /\ child_stdout = <<>>
    /\ pc = "call"
    /\ RunnerFresh
    /\ DbIdle

NextTest ==
    \/ SkipNoSolution
    \/ SkipNoTests
    \/ EnterDay
    \/ Build
    \/ BuildFails
    \/ StartTest
    \/ RunnerReturn
    \/ RunnerRaise
    \/ EndDay
    \/ Finish

SpecTest == InitTest /\ [][NextTest]_vars

(***************************************************************************)
(* SpecDb: the operations of the table layer, called in any order on a     *)
(* table that starts empty and a class that starts without a connection.   *)
(***************************************************************************)
InitDb ==
    /\ command = <<"run">>
    /\ part = 1
    /\ input_kind = "file"
    /\ file_bytes = <<>>
    /\ child_kind = "read_first"
    /\ child_exit = 0
    /\ child_stdout = <<>>
    /\ pc = "call"
    /\ RunnerFresh
    /\ OrchIdle
    /\ DbIdle

NextDb ==
    \/ bind_connection
    \/ disconnect
    \/ CallInsert
    \/ CallUpdate
    \/ CallFetchAll
    \/ CallFetchOne
    \/ CallFetchSingle
    \/ CallFind
    \/ CallFindOne
    \/ CallFindSingle

SpecDb == InitDb /\ [][NextDb]_vars

(***************************************************************************)
(* SpecLanguage: the ECALanguage table of the archive; it starts empty     *)
(* and the class without a connection, and objects are inserted and their  *)
(* parts set solved and unsolved in any order.                             *)
(***************************************************************************)
NextLanguage ==
    \/ bind_connection
    \/ disconnect
    \/ CallLanguageInsert
    \/ CallSetSolved
    \/ CallSetUnsolved

SpecLanguage == InitDb /\ [][NextLanguage]_vars

(***************************************************************************)
(* What the claims speak of.                                               *)
(***************************************************************************)
ProtocolErrorResult == FPResult("ProtocolError", None, None, None)

\* the positions of the newlines of a byte string
NLIdx(b) == {i \in 1..Len(b) : b[i] = NL}

\* the position of the k-th newline
NthNL(b, k) == CHOOSE i \in NLIdx(b) : Cardinality({j \in NLIdx(b) : j < i}) = k - 1

\* the number of lines of a byte string, an unterminated last line included
CountLines(b) ==
    Cardinality(NLIdx(b)) + (IF b # <<>> /\ b[Len(b)] # NL THEN 1 ELSE 0)

\* the k-th line of a byte string of at least k lines, without its newline
LineText(b, k) ==
    LET first == IF k = 1 THEN 1 ELSE NthNL(b, k - 1) + 1
        last == IF Cardinality(NLIdx(b)) >= k THEN NthNL(b, k) - 1 ELSE Len(b)
    IN  SubSeq(b, first, last)

\* the unit suffixes of the wire format and the units they name
UnitSuffixes ==
    {<<<<"n", "s">>, "nano">>, <<<<"u", "s">>, "micro">>,
     <<<<Micro, "s">>, "micro">>, <<<<"m", "s">>, "milli">>, <<<<"s">>, "unit">>}

TimingValues == {0, 15, 1500}

\* the line "RT <n> <suffix>"
TimingLine(n, suffix) == <<"R", "T", " ">> \o NatToStr(n) \o <<" ">> \o suffix

\* an optional sign and decimal digits
IsIntegerText(tok) ==
    LET digits == IF tok # <<>> /\ tok[1] \in {"+", "-"} THEN Tail(tok) ELSE tok
    IN  digits # <<>> /\ \A i \in 1..Len(digits) : digits[i] \in Digits

\* a line of three blank-separated words: RT, an integer, a unit suffix
IsTimingForm(line) ==
    LET words == SplitWs(line) IN
    /\ Len(words) = 3
    /\ words[1] = <<"R", "T">>
    /\ IsIntegerText(words[2])
    /\ \E u \in UnitSuffixes : words[3] = u[1]

\* the call of exec_protocol is over
CallOver == pc \in {"returned", "raised"}

(***************************************************************************)
(* C1: a call of exec_protocol whose input path is no regular file         *)
(* launches no child, writes nothing to a stdin, echoes nothing, raises    *)
(* nothing, and once it is past its first step it has returned a result    *)
(* of status InputDoesNotExists with every other field unset.              *)
(***************************************************************************)
C1_MissingInputNoLaunch ==
    input_kind # "file" =>
        /\ child_state = "none"
        /\ child_argv = <<>>
        /\ stdin_writes = <<>>
        /\ in_state = "none"
        /\ echoed = <<>>
        /\ exc = None
        /\ pc \in {"call", "returned"}
        /\ pc = "returned" =>
              result = Some(FPResult("InputDoesNotExists", None, None, None))

C1_Witness ==
    /\ input_kind = "missing"
    /\ pc = "returned"
    /\ result # None
    /\ result[1].status = "InputDoesNotExists"

(***************************************************************************)
(* C2: whenever a call whose child exited with a non-zero code, or wrote   *)
(* a number of stdout lines other than 1 or 2, is over, it has returned    *)
(* the result ProtocolError with answer, running_time and unit unset,      *)
(* whatever the bytes of the stdout are.                                   *)
(***************************************************************************)
C2_BadExitOrLineCountIsProtocolError ==
    (CallOver /\ (child_exit # 0 \/ CountLines(child_stdout) \notin {1, 2}))
        => result = Some(ProtocolErrorResult)

(***************************************************************************)
(* C3: a call that returned, whose child exited 0 and wrote exactly two    *)
(* lines, the second being "RT <n> <suffix>", returned Ok with the first   *)
(* line as answer, n as running_time and the suffix's unit.                *)
(***************************************************************************)
C3_TimedAnswerIsOk ==
    \A n \in TimingValues, u \in UnitSuffixes :
        (/\ pc = "returned"
         /\ child_exit = 0
         /\ CountLines(child_stdout) = 2
         /\ LineText(child_stdout, 2) = TimingLine(n, u[1]))
            => result = Some(FPResult("Ok", Some(LineText(child_stdout, 1)),
                                      Some(n), Some(u[2])))

(***************************************************************************)
(* C4: a call that returned, whose child exited 0 and wrote exactly two    *)
(* lines, the second not of the form RT, integer, unit suffix (an empty    *)
(* or blank second line included), returned ProtocolError.                 *)
(***************************************************************************)
C4_MalformedTimingIsProtocolError ==
    (/\ pc = "returned"
     /\ child_exit = 0
     /\ CountLines(child_stdout) = 2
     /\ ~IsTimingForm(LineText(child_stdout, 2)))
        => result[1].status = "ProtocolError"

(***************************************************************************)
(* C5: a call that returned, whose child exited 0 and wrote exactly one    *)
(* line, returned Ok with that line, without its newline, as answer, and   *)
(* with running_time and unit unset.                                       *)
(***************************************************************************)
C5_SingleLineIsAnswer ==
    (/\ pc = "returned"
     /\ child_exit = 0
     /\ CountLines(child_stdout) = 1)
        => result = Some(FPResult("Ok", Some(LineText(child_stdout, 1)),
                                  None, None))

(***************************************************************************)
(* C6: a call that returned Ok, whose child exited 0 and wrote exactly     *)
(* two lines, has the text of the first line, unchanged, as its answer.    *)
(***************************************************************************)
C6_AnswerIsFirstLine ==
    (/\ pc = "returned"
     /\ child_exit = 0
     /\ CountLines(child_stdout) = 2
     /\ result[1].status = "Ok")
        => result[1].answer = Some(LineText(child_stdout, 1))

(***************************************************************************)
(* C7: the argument vector of every child launched is the command, then    *)
(* "--part", then the decimal text of the part, and nothing after it.      *)
(***************************************************************************)
C7_PartArgumentsLast ==
    child_state # "none" =>
        /\ Len(child_argv) = Len(command) + 2
        /\ SubSeq(child_argv, 1, Len(command)) = command
        /\ child_argv[Len(child_argv) - 1] = "--part"
        /\ child_argv[Len(child_argv)] = (IF part = 1 THEN "1" ELSE "2")

C7_Witness ==
    /\ child_state = "exited"
    /\ part = 2
    /\ child_argv = <<"python", "main.py", "--part", "2">>

(***************************************************************************)
(* C8: once the runner has closed the child's stdin it has written the     *)
(* bytes of the input file to it, in one write and no other, and a child   *)
(* that has seen the end of its input has read the bytes of the file.      *)
(***************************************************************************)
C8_StdinIsTheInputFile ==
    /\ in_state \in {"closing", "closed"} => stdin_writes = <<file_bytes>>
    /\ child_eof => child_read = file_bytes

(***************************************************************************)
(* C9: a call that has written and closed its input and awaits the         *)
(* gather, and whose child reads its stdin to the end and then exits,      *)
(* eventually returns a result, whatever the sizes of the input and of     *)
(* the output are against the capacity of the pipes.                       *)
(***************************************************************************)
C9_EventuallyReturns ==
    (pc = "gather" /\ child_kind # "ignores") ~> (pc = "returned")

(***************************************************************************)
(* C10: a tuple that has no solution file, or no test case, is left with   *)
(* no report line, no execution of the build command and no call of        *)
(* exec_protocol made for it.                                              *)
(***************************************************************************)
C10_SkippedTupleIsSilent ==
    \A t \in TupleSet :
        (~has_solution[t[1]] \/ ntests[t] = 0) =>
            /\ \A i \in 1..Len(report) : report[i].at # <<Years[1], t[1], t[2]>>
            /\ \A i \in 1..Len(builds) : builds[i] # <<Years[1], t[1], t[2]>>
            /\ \A i \in 1..Len(calls) : calls[i].at # <<Years[1], t[1], t[2]>>

C10_Witness ==
    /\ opc = "done"
    /\ has_solution[Days[1]]
    /\ build_command # None
    /\ ntests[<<Days[1], 1>>] = 0
    /\ ntests[<<Days[1], 2>>] = 2
    /\ cur = <<Years[1], Days[1], 2>>
    /\ Len(calls) = 2
    /\ Len(builds) = 1

\* the lines of the report that tell the outcome of a test case
ResultLines == {i \in 1..Len(report) : report[i].res # None}

\* the tuples test_day has work for
Runnable == {t \in TupleSet : has_solution[t[1]] /\ ntests[t] > 0}

CallsOf(t, k) ==
    {i \in 1..Len(calls) : calls[i].at = <<Years[1], t[1], t[2]>> /\ calls[i].test = k}

LinesOf(t, k) ==
    {i \in ResultLines : report[i].at = <<Years[1], t[1], t[2]>> /\ report[i].test = k}

(***************************************************************************)
(* C11: the line reported for a test case follows from the runner's        *)
(* result: Ok with the expected answer as text gives a success line with   *)
(* the name, the part and the answer; Ok with another answer gives a       *)
(* failure line with the observed and the expected answer; any other       *)
(* status gives a failure line with the name and no answer.  A success     *)
(* line stands for an Ok result with the expected answer only.             *)
(***************************************************************************)
C11_OutcomeFollowsResult ==
    \A i \in ResultLines :
        LET e == report[i]
            r == e.res[1]
            tc == TestPool[e.test]
            matches == r.status = "Ok" /\ r.answer = Some(str(tc.answer))
        IN  /\ e.line.name = tc.name
            /\ matches =>
                  /\ e.line.kind = "success"
                  /\ e.line.part = e.at[3]
                  /\ e.line.answer = r.answer
            /\ (r.status = "Ok" /\ ~matches) =>
                  /\ e.line.kind = "mismatch"
                  /\ e.line.answer = r.answer
                  /\ e.line.expected = Some(tc.answer)
            /\ r.status # "Ok" =>
                  /\ e.line.kind = "could_not_run"
                  /\ e.line.answer = None
            /\ e.line.kind = "success" => matches

C11_Witness ==
    /\ \E i \in ResultLines : report[i].line.kind = "success"
                               /\ TestPool[report[i].test].answer.t = "int"
    /\ \E i \in ResultLines : report[i].line.kind = "mismatch"
    /\ \E i \in ResultLines : report[i].line.kind = "could_not_run"
                               /\ report[i].res[1].status = "InputDoesNotExists"

(***************************************************************************)
(* C12: every test case of every tuple that has a solution and test cases  *)
(* gets exactly one call of exec_protocol and exactly one success or       *)
(* failure line: never more than one, and one of each when the command is  *)
(* over, whatever the outcomes of the test cases before it were.           *)
(***************************************************************************)
C12_EveryTestCaseRunOnceAndReported ==
    /\ \A t \in TupleSet : \A k \in 1..MaxTests :
          Cardinality(CallsOf(t, k)) <= 1 /\ Cardinality(LinesOf(t, k)) <= 1
    /\ opc \in {"done", "crashed"} =>
          \A t \in Runnable : \A k \in 1..ntests[t] :
              Cardinality(CallsOf(t, k)) = 1 /\ Cardinality(LinesOf(t, k)) = 1

(***************************************************************************)
(* C13: a call of exec_protocol that fails because the child's stdin       *)
(* could not be opened (RuntimeError) does not end the command: the loop   *)
(* goes on with the next test case and the next tuple.                     *)
(***************************************************************************)
C13_StdinFailureLeavesLoopRunning ==
    exc = Some("RuntimeError") => opc # "crashed"

\* the rows of tbl whose primary key is the stored value k
KeyRows(tbl, k) == {r \in tbl : Field(r, "idx") = k}

\* the objects fetch_all builds of the rows of tbl
AsObjects(tbl) == {build_class(r) : r \in tbl}

\* the operations of a table that check_connection wraps
TableOps ==
    {"insert", "update", "fetch_all", "fetch_one", "fetch_single", "find",
     "find_one", "find_single"}

NotBound == "ValueError: Table not bound"

(***************************************************************************)
(* C14: update(key={"idx": k}) on an object whose idx is k, while the      *)
(* table holds a row with idx k that differs from the object, makes the    *)
(* stored row of k equal to the object and leaves the rows of other keys   *)
(* as they were.                                                           *)
(***************************************************************************)
C14_UpdateWritesRowOfKey ==
    LET obj == db_call.obj
        k == Adapt(obj.idx)
    IN  (/\ db_call.op = "update"
         /\ _bound
         /\ DOMAIN db_call.arg = {"idx"}
         /\ db_call.arg["idx"] = obj.idx
         /\ KeyRows(db_before, k) # {}
         /\ AsObjects(KeyRows(db_before, k)) # {obj})
        => /\ AsObjects(KeyRows(table, k)) = {obj}
           /\ table \ KeyRows(table, k) = db_before \ KeyRows(db_before, k)

(***************************************************************************)
(* C15: an operation called on a class that has no connection, never bound *)
(* or disconnected, raises ValueError "Table not bound" and leaves the     *)
(* table as it was; on a bound class no operation raises that error.       *)
(***************************************************************************)
C15_UnboundTableRaises ==
    db_call.op \in TableOps =>
        /\ ~_bound => (db_out.kind = NotBound /\ table = db_before)
        /\ _bound => db_out.kind # NotBound

C15_Witness ==
    /\ db_call.op = "update"
    /\ ~_bound
    /\ table # {}
    /\ db_out.kind = NotBound

ToSet(seq) == {seq[i] : i \in 1..Len(seq)}

\* the objects of the rows of tbl whose columns equal every value of match
Matching(tbl, match) ==
    {obj \in AsObjects(tbl) : \A c \in DOMAIN match : obj[c] = match[c]}

(***************************************************************************)
(* C16: an insert of an object whose primary key is not in the table       *)
(* grows the row count by one, and fetch_all then yields the rows it       *)
(* yielded before together with the object inserted; from the empty table  *)
(* on, fetch_all so yields exactly the objects inserted.                   *)
(***************************************************************************)
C16_FetchAllYieldsInsertedRows ==
    LET obj == db_call.obj
    IN  (/\ db_call.op = "insert"
         /\ _bound
         /\ KeyRows(db_before, Adapt(obj.idx)) = {})
        => /\ db_out.kind = "self"
           /\ Cardinality(table) = Cardinality(db_before) + 1
           /\ Len(fetch_all(table).out.rows) = Cardinality(table)
           /\ ToSet(fetch_all(table).out.rows)
                  = ToSet(fetch_all(db_before).out.rows) \cup {obj}

(***************************************************************************)
(* C17: insert(replace=True) of an object whose primary key is in the      *)
(* table leaves the row count as it was, makes the row of that key equal   *)
(* to the new object and, when the old row differed from the object, no    *)
(* longer equal to the old one, and leaves the other rows as they were.    *)
(***************************************************************************)
C17_InsertReplaceReplacesRow ==
    LET obj == db_call.obj
        k == Adapt(obj.idx)
    IN  (/\ db_call.op = "insert"
         /\ _bound
         /\ db_call.replace
         /\ KeyRows(db_before, k) # {})
        => /\ db_out.kind = "self"
           /\ Cardinality(table) = Cardinality(db_before)
           /\ AsObjects(KeyRows(table, k)) = {obj}
           /\ AsObjects(KeyRows(db_before, k)) # {obj}
                  => AsObjects(KeyRows(table, k)) # AsObjects(KeyRows(db_before, k))
           /\ table \ KeyRows(table, k) = db_before \ KeyRows(db_before, k)

(***************************************************************************)
(* C18: find with a match that is not empty yields exactly the rows of     *)
(* the table whose columns equal every value of the match, each once, and  *)
(* leaves the table as it was.                                             *)
(***************************************************************************)
C18_FindYieldsMatchingRows ==
    (db_call.op = "find" /\ _bound /\ DOMAIN db_call.arg # {})
        => /\ db_out.kind = "list"
           /\ ToSet(db_out.rows) = Matching(db_before, db_call.arg)
           /\ Len(db_out.rows) = Cardinality(Matching(db_before, db_call.arg))
           /\ table = db_before

(***************************************************************************)
(* C19: find_single has four outcomes: ValueError for an empty match,      *)
(* None when no row matches, the row when exactly one row matches, and     *)
(* RuntimeError when two or more rows match.                               *)
(***************************************************************************)
C19_FindSingleOutcomes ==
    LET match == db_call.arg
        rows == Matching(db_before, match)
    IN  (db_call.op = "find_single" /\ _bound)
        => /\ table = db_before
           /\ (DOMAIN match = {}) => db_out.kind = "ValueError: empty dictionary"
           /\ (DOMAIN match # {} /\ rows = {}) => db_out.kind = "None"
           /\ (DOMAIN match # {} /\ Cardinality(rows) = 1)
                  => (db_out.kind = "row" /\ ToSet(db_out.rows) = rows)
           /\ (DOMAIN match # {} /\ Cardinality(rows) >= 2)
                  => db_out.kind = "RuntimeError: should have found one or zero rows"

(***************************************************************************)
(* C20: fetch_single returns the row of the table when the table holds     *)
(* exactly one row, and only then; on an empty table and on a table of two *)
(* or more rows it raises RuntimeError "should have one row".              *)
(***************************************************************************)
C20_FetchSingleNeedsOneRow ==
    (db_call.op = "fetch_single" /\ _bound)
        => /\ table = db_before
           /\ Cardinality(table) = 1
                  => (db_out.kind = "row" /\ ToSet(db_out.rows) = AsObjects(table))
           /\ Cardinality(table) # 1
                  => (/\ db_out.kind = "RuntimeError: should have one row"
                      /\ db_out.rows = <<>>)

C20_Witness ==
    /\ db_call.op = "fetch_single"
    /\ _bound
    /\ Cardinality(table) = 2
    /\ db_out.kind = "RuntimeError: should have one row"

\* the executions of the build command made for the day of tuple t
BuildsOf(d) == {i \in 1..Len(builds) : builds[i][2] = d}

\* the calls of exec_protocol made for the tests of day d
DayCalls(d) == {i \in 1..Len(calls) : calls[i].at[2] = d}

(***************************************************************************)
(* C21: the calls of exec_protocol never overlap: at most one call is in   *)
(* flight, and a call is started only when every call before it has        *)
(* returned and has its result line in the report.                         *)
(***************************************************************************)
C21_CallsNeverOverlap ==
    /\ alive <= 1
    /\ Len(calls) <= Cardinality(ResultLines) + 1
    /\ opc = "calling" => (alive = 1 /\ Len(calls) = Cardinality(ResultLines) + 1)
    /\ opc \in {"loop", "build", "tests", "done"}
          => (alive = 0 /\ Len(calls) = Cardinality(ResultLines))

C21_Witness ==
    /\ opc = "calling"
    /\ Len(calls) = 3
    /\ Cardinality(ResultLines) = 2
    /\ alive = 1

(***************************************************************************)
(* C22: when the language has a build command, it is executed exactly once *)
(* for a (year, day), before the test cases of that day, also when part 1  *)
(* and part 2 of the day are both tested.                                  *)
(***************************************************************************)
C22_BuildOncePerDay ==
    build_command # None =>
        \A d \in DaySet :
            /\ Cardinality(BuildsOf(d)) <= 1
            /\ DayCalls(d) # {} => Cardinality(BuildsOf(d)) = 1

C24_FixturesUnchanged ==
    \A i \in 1..Len(tests) : tests[i] = TestPool[i]

(***************************************************************************)
(* C25: exec_protocol has no timeout: a call that launched a child returns *)
(* a result only after the child has exited and its stdout is at end of    *)
(* file, so a child that does neither keeps the call from ever returning.  *)
(***************************************************************************)
C25_NoResultWhileChildRuns ==
    /\ (result # None /\ child_argv # <<>>)
          => (child_state = "exited" /\ sr_eof /\ wait_res # None /\ read_res # None)
    /\ (pc = "gather" /\ child_state = "running") => result = None

\* the child has read its input to the end and written all of its output,
\* all of it has been drained, and the child does not exit
C25_Witness ==
    /\ pc = "gather"
    /\ child_state = "running"
    /\ in_state = "closed"
    /\ child_eof
    /\ child_stdout # <<>>
    /\ out_todo = <<>>
    /\ out_pipe = <<>>
    /\ sr_buf = <<>>
    /\ result = None

C27_ResultIsWellFormed ==
    result # None =>
        LET r == result[1] IN
        /\ r.status \in {"Ok", "InputDoesNotExists", "ProtocolError"}
        /\ r.status # "Ok" => (r.answer = None /\ r.running_time = None /\ r.unit = None)
        /\ r.status = "Ok" => r.answer # None
        /\ r.running_time # None <=> r.unit # None

C27_Witness ==
    /\ pc = "returned"
    /\ result # None
    /\ result[1].status = "Ok"
    /\ result[1].running_time # None
    /\ result[1].unit # None

\* run_solutions, lines 63-65: the two writes to sys.stdout, for the
\* printed text of the solve result and the elapsed nanoseconds
run_solutions(ans, dt) ==
    (ans \o <<NL>>) \o (<<"R", "T", " ">> \o NatToStr(dt) \o <<" ", "n", "s", NL>>)

(***************************************************************************)
(* C28: the two lines run_solutions writes for a solve result whose        *)
(* printed text has no newline (the empty text and text with blanks at its *)
(* ends included), from a process that exits 0, are classified as Ok with  *)
(* that text as answer, the elapsed time as running_time and unit nano.    *)
(***************************************************************************)
HarnessAnswers == {<<"4", "2">>, <<>>, <<" ", "4", "2">>, <<"4", "2", " ">>, <<" ">>}

HarnessElapsed == {15, 1500}

C28_HarnessOutputIsOk ==
    \A ans \in HarnessAnswers, dt \in HarnessElapsed :
        (/\ pc = "returned"
         /\ child_exit = 0
         /\ child_stdout = run_solutions(ans, dt))
            => result = Some(FPResult("Ok", Some(ans), Some(dt), Some("nano")))

\* the row of the ECALanguage table that has the key of the object
LanguageRows(tbl, obj) ==
    {r \in tbl : \A c \in LanguageKey : FieldOf(LanguageColumns, r, c) = Adapt(obj[c])}

\* the row r with b, as 0 or 1, in the finished column of part p: the
\* fifth column for part 1 and the sixth for part 2
WithFinished(r, p, b) == [r EXCEPT ![4 + p] = PyInt(IF b THEN 1 ELSE 0)]

\* the table after set_solved(p) and then set_unsolved(p), each called on
\* the object fetched for row r just before
SolvedThenUnsolved(tbl, r, p) ==
    LET t1 == set_solved(tbl, ECALanguage(r), p).tbl
        r1 == CHOOSE x \in LanguageRows(t1, ECALanguage(r)) : TRUE
    IN  set_unsolved(t1, ECALanguage(r1), p).tbl

\* the last call was set_solved or set_unsolved on an object whose fields
\* equal its stored row, with the class bound
FlagSetOnStoredRow ==
    /\ db_call.op \in {"set_solved", "set_unsolved"}
    /\ db_out.kind # "ValueError: Table not bound"
    /\ \E r \in db_before : ECALanguage(r) = db_call.obj

(***************************************************************************)
(* C29, as stated: set_solved(part) and set_unsolved(part) of an object    *)
(* whose fields equal its stored row set the finished column of the part   *)
(* in that row and change nothing else, and set_solved followed by         *)
(* set_unsolved, each on a freshly fetched object, restores the stored     *)
(* row.                                                                    *)
(***************************************************************************)
C29_FlagSetAndRestored ==
    /\ FlagSetOnStoredRow =>
          \E r \in db_before :
              /\ ECALanguage(r) = db_call.obj
              /\ table = (db_before \ {r})
                            \cup {WithFinished(r, db_call.arg.part.v,
                                               db_call.op = "set_solved")}
    /\ _bound => \A r \in table, p \in {1, 2} : SolvedThenUnsolved(table, r, p) = table

(***************************************************************************)
(* C29, amended: set_solved(part) and set_unsolved(part) of an object      *)
(* whose fields equal its stored row set the finished column of the part   *)
(* in that row and change nothing else; set_solved followed by             *)
(* set_unsolved, each on a freshly fetched object, leaves the row with the *)
(* part unsolved and everything else as it was, which restores the stored  *)
(* row exactly when the part was unsolved before.                          *)
(***************************************************************************)
C29_FlagSetAndCleared ==
    /\ FlagSetOnStoredRow =>
          \E r \in db_before :
              /\ ECALanguage(r) = db_call.obj
              /\ table = (db_before \ {r})
                            \cup {WithFinished(r, db_call.arg.part.v,
                                               db_call.op = "set_solved")}
    /\ _bound =>
          \A r \in table, p \in {1, 2} :
              /\ SolvedThenUnsolved(table, r, p)
                    = (table \ {r}) \cup {WithFinished(r, p, FALSE)}
              /\ SolvedThenUnsolved(table, r, p) = table
                    <=> r[4 + p] = PyInt(0)

C29_Witness ==
    /\ FlagSetOnStoredRow
    /\ db_call.op = "set_solved"
    /\ db_call.arg.part.v = 2
    /\ Cardinality(db_before) = 2
    /\ table # db_before
    /\ \E r \in table : ECALanguage(r).finished_pt1.v = 1

====
